---- MODULE Spec2Model ----
(***************************************************************************)
(* PaddleOCRVLService (services/paddleocr_vl_service.py) and the health    *)
(* endpoint of main.py: the lazily constructed, lock-protected pipeline    *)
(* handle, the staging of request bytes in a temporary file, the           *)
(* prediction call and the normalisation of its result objects.            *)
(*                                                                         *)
(* Two specifications share the module:                                    *)
(*   Spec      worker threads calling the service concurrently;            *)
(*   NormSpec  the result normaliser applied to one result object drawn    *)
(*             from a bounded set of Python values.                        *)
(***************************************************************************)
EXTENDS Integers, Sequences, FiniteSets, TLC

VARIABLES
    _pipeline,      \* PaddleOCRVLService._pipeline: NoHandle or the handle's id
    _lock,          \* PaddleOCRVLService._lock: NoThread or the thread holding it
    _initialized,   \* PaddleOCRVLService._initialized (set by __init__)
    pc,             \* per thread: where it is in the call it is making
    op,             \* per thread: the service method it called
    image_path,     \* per thread: the image_path of process_image
    temp_path,      \* per thread: the temp_path of process_image_bytes
    handle,         \* per thread: the handle read at self._pipeline.predict
    call_attempts,  \* per thread: constructions attempted by the current call
    exc,            \* per thread: the e of "except Exception as e"
    waited,         \* per thread (history): its call entered _initialize_pipeline
                    \* while another thread was constructing
    fs,             \* the staged temporary files that exist on disk
    calls,          \* service calls started so far
    constructs,     \* PaddleOCRVL() calls that returned a handle
    init_failed,    \* some PaddleOCRVL() call has raised
    proc_failed,    \* the calls started when process_image's except clause first
                    \* raised, 0 while it never has
    last,           \* what the call that finished in the last step gave its caller
    res,            \* NormSpec: the result object being normalised
    result_json,    \* NormSpec: its normalised form
    warned,         \* NormSpec: the fallback warning was logged for res
    phase           \* NormSpec: "input" or "normalized"

svcVars == <<_pipeline, _lock, _initialized, pc, op, image_path, temp_path,
             handle, call_attempts, exc, waited, fs, calls, constructs, init_failed,
             proc_failed, last>>

normVars == <<res, result_json, warned, phase>>

vars == <<svcVars, normVars>>

----------------------------------------------------------------------------
(* Bounds of the model.                                                    *)

NumThreads == 2       \* worker threads
MaxCalls == 2         \* service calls started in one behaviour
MaxUnits == 2         \* result objects one predict() yields
MaxLen == 2           \* entries of a generated list, dict or object
RecursionLimit == 4   \* nested _make_serializable calls before RecursionError

----------------------------------------------------------------------------
(* Python values.  Every value is a record of the same shape: its type t,  *)
(* a scalar payload or class name v, and its children items.  A dict or an *)
(* object's __dict__ is the sequence of its entries in insertion order,    *)
(* each entry holding <<key, value>>.  Two kinds of child make the object  *)
(* graph cyclic: PyRef is a reference back to the result object the        *)
(* conversion started from, PySelf a reference to the container it sits in.*)

Py(t, v, items) == [t |-> t, v |-> v, items |-> items]

PyNone == Py("None", "", <<>>)
PyStr(s) == Py("str", s, <<>>)
PyInt(s) == Py("int", s, <<>>)
PyList(xs) == Py("list", "", xs)
PyTuple(xs) == Py("tuple", "", xs)
Entry(k, x) == Py("entry", "", <<k, x>>)
PyDict(entries) == Py("dict", "", entries)
\* a function or bound method; calling it returns ret[1], or raises if ret = <<>>
PyCallable(name, ret) == Py("callable", name, ret)
\* an instance with a __dict__
PyObject(cls, entries) == Py("object", cls, entries)
\* an instance without a __dict__ (slots or an extension type)
PyOpaque(cls) == Py("opaque", cls, <<>>)
PyRef == Py("ref", "", <<>>)
PySelf == Py("self", "", <<>>)
\* a raised exception, in place of a returned value
Raised(name) == Py("raise", name, <<>>)

IsRaised(x) == x.t = "raise"
Key(e) == e.items[1]
Val(e) == e.items[2]

\* the object a child x of container stands for
Deref(x, root, container) ==
    IF x.t = "ref" THEN root ELSE IF x.t = "self" THEN container ELSE x

\* isinstance(obj, (str, int, float, bool)) or obj is None
IsPrimitive(obj) == obj.t \in {"None", "str", "int"}

\* callable(obj)
callable(obj) == obj.t = "callable"

\* the attribute names of the model that start with an underscore
PrivateNames == {"_cache"}

\* startswith_underscore that finds no name private
startswith_underscore_never(k) == FALSE

\* str.startswith('_') for the attribute names of the model
startswith_underscore(k) == k.t = "str" /\ k.v \in PrivateNames

\* str(obj)
str(obj) == PyStr(obj.v)

\* The first raised exception among converted children, else NoRaise.
NoRaise == Py("noraise", "", <<>>)
RECURSIVE FirstRaised(_, _)
FirstRaised(xs, i) ==
    IF i > Len(xs) THEN NoRaise
    ELSE IF IsRaised(xs[i]) THEN xs[i]
    ELSE FirstRaised(xs, i + 1)

\* json.dumps(obj) succeeds (default encoder, check_circular on)
RECURSIVE json_dumps_ok(_)
json_dumps_ok(obj) ==
    CASE obj.t \in {"None", "str", "int"} -> TRUE
      [] obj.t \in {"list", "tuple"} ->
            \A i \in 1..Len(obj.items) : json_dumps_ok(obj.items[i])
      [] obj.t = "dict" ->
            \A i \in 1..Len(obj.items) :
                /\ Key(obj.items[i]).t \in {"None", "str", "int"}
                /\ json_dumps_ok(Val(obj.items[i]))
      [] OTHER -> FALSE

----------------------------------------------------------------------------
(* The result normaliser.                                                  *)

\* PaddleOCRVLService._make_serializable.  depth counts the nested calls;
\* Python raises RecursionError when the interpreter's limit is passed.
RECURSIVE _make_serializable(_, _, _)
_make_serializable(obj, root, depth) ==
    LET item(y) == Deref(y, root, obj)
        child(y) == _make_serializable(item(y), root, depth + 1)
    IN
    IF depth > RecursionLimit THEN Raised("RecursionError")
    ELSE IF IsPrimitive(obj) THEN obj
    ELSE IF obj.t \in {"list", "tuple"} THEN
        LET conv == [i \in 1..Len(obj.items) |-> child(obj.items[i])]
            bad == FirstRaised(conv, 1)
        IN  IF IsRaised(bad) THEN bad ELSE PyList(conv)
    ELSE IF obj.t = "dict" THEN
        LET keep(e) == ~callable(item(Val(e)))
            kept == SelectSeq(obj.items, keep)
            vals == [i \in 1..Len(kept) |-> child(Val(kept[i]))]
            bad == FirstRaised(vals, 1)
        IN  IF IsRaised(bad) THEN bad
            ELSE PyDict([i \in 1..Len(kept) |-> Entry(Key(kept[i]), vals[i])])
    ELSE IF callable(obj) THEN PyNone
    ELSE
        LET keep(e) == ~startswith_underscore(Key(e)) /\ ~callable(item(Val(e)))
            kept == SelectSeq(obj.items, keep)
            vals == [i \in 1..Len(kept) |-> child(Val(kept[i]))]
            \* the try block around the __dict__ comprehension: any Exception
            \* raised below is swallowed and the string fallback is taken
            converted == obj.t = "object" /\ ~IsRaised(FirstRaised(vals, 1))
        IN  IF converted
            THEN PyDict([i \in 1..Len(kept) |-> Entry(Key(kept[i]), vals[i])])
            ELSE IF json_dumps_ok(obj) THEN obj ELSE str(obj)

\* getattr(res, 'to_dict'): the entry of that name, NoAttr when there is none
NoAttr == Py("noattr", "", <<>>)
RECURSIVE getattr(_, _, _)
getattr(obj, name, i) ==
    IF obj.t # "object" \/ i > Len(obj.items) THEN NoAttr
    ELSE IF Key(obj.items[i]) = PyStr(name) THEN Val(obj.items[i])
    ELSE getattr(obj, name, i + 1)

\* hasattr(res, 'to_dict') and callable(res.to_dict)
has_to_dict(unit) == callable(getattr(unit, "to_dict", 1))

\* calling a callable of the model
call(f) == IF Len(f.items) = 0 THEN Raised("to_dict failed") ELSE f.items[1]

\* NormalizeUnit passing what to_dict returned through _make_serializable
NormalizeUnit_sanitize(unit) ==
    IF has_to_dict(unit)
    THEN LET d == call(getattr(unit, "to_dict", 1))
         IN  IF IsRaised(d) THEN d ELSE _make_serializable(d, d, 1)
    ELSE _make_serializable(unit, unit, 1)

\* process_image, the body of its loop: one result object to its JSON form
NormalizeUnit(unit) ==
    IF has_to_dict(unit)
    THEN call(getattr(unit, "to_dict", 1))
    ELSE _make_serializable(unit, unit, 1)

\* process_image, the warning of the else branch of its loop
FallbackWarned(unit) == ~has_to_dict(unit)

----------------------------------------------------------------------------
(* The bounded set of result objects the normaliser is checked on.         *)

\* a place of a generated container that holds nothing
Absent == Py("absent", "", <<>>)

\* The places of f that hold something, ascending.
RECURSIVE Present(_, _)
Present(f, i) ==
    IF i > Len(f) THEN <<>>
    ELSE IF f[i] = Absent THEN Present(f, i + 1)
    ELSE <<i>> \o Present(f, i + 1)

\* The sequences over S of length at most n.
SeqsUpTo(S, n) ==
    {[i \in 1..Len(Present(f, 1)) |-> f[i]] :
        f \in {g \in [1..n -> S \cup {Absent}] :
                  \A i \in 1..n : g[i] = Absent => \A j \in i..n : g[j] = Absent}}

\* Entry sequences of at most n entries: keys from the sequence keys, each
\* key at most once and in the order of keys, values from S.
EntriesUpTo(keys, S, n) ==
    {[i \in 1..Len(Present(f, 1)) |->
         Entry(keys[Present(f, 1)[i]], f[Present(f, 1)[i]])] :
        f \in {g \in [1..Len(keys) -> S \cup {Absent}] : Len(Present(g, 1)) <= n}}

Compute == PyCallable("compute", <<>>)

Leaves == {PyNone, PyStr("text"), PyInt("10"), Compute, PyOpaque("ndarray"), PyRef}

NestedLeaves == {PyInt("10"), Compute, PyRef, PySelf}

BBox == PyList(<<PyInt("0"), PyInt("0"), PyInt("10"), PyInt("10")>>)

TupleKey == PyTuple(<<PyInt("0"), PyInt("10")>>)

\* values found inside a result object
Inner ==
    Leaves
    \cup {PyList(<<x>>) : x \in NestedLeaves}
    \cup {PyDict(<<Entry(PyStr("label"), x)>>) : x \in NestedLeaves}
    \cup {PyObject("Box", <<Entry(PyStr("label"), x)>>) : x \in NestedLeaves}
    \cup {TupleKey,
          PyDict(<<Entry(TupleKey, PyInt("10"))>>),
          PyObject("Box", <<Entry(PyStr("_cache"), PyInt("10"))>>)}

AttrNames == <<PyStr("bbox"), PyStr("label"), PyStr("compute"), PyStr("_cache")>>

DictKeys == <<PyStr("bbox"), PyStr("label"), PyInt("1"), TupleKey>>

Dicts == {PyDict(es) : es \in EntriesUpTo(DictKeys, Inner, MaxLen)}

\* a to_dict attribute that is not callable, or none
ToDictAttrs == {<<>>, <<Entry(PyStr("to_dict"), PyStr("text"))>>}

\* instances without a callable to_dict
OpaqueObjects ==
    {PyObject("Result", es \o td) :
        es \in EntriesUpTo(AttrNames, Inner, MaxLen), td \in ToDictAttrs}

\* an instance whose to_dict is callable: it returns ret[1], or raises if
\* ret = <<>>
SelfDescribing(ret) ==
    PyObject("Result", <<Entry(PyStr("bbox"), BBox),
                         Entry(PyStr("to_dict"), PyCallable("to_dict", ret))>>)

\* the two result objects of the specification's examples
ExampleSelfDescribing ==
    SelfDescribing(<<PyDict(<<Entry(PyStr("a"), PyInt("1")),
                              Entry(PyStr("b"), PyList(<<PyInt("1"), PyInt("2")>>))>>)>>)

ExampleOpaque ==
    PyObject("Result", <<Entry(PyStr("bbox"), BBox),
                         Entry(PyStr("label"), PyStr("text")),
                         Entry(PyStr("compute"), Compute)>>)

RaisingUnit == SelfDescribing(<<>>)

\* the result objects the normaliser is checked on, by kind
UnitKinds == {"scalar", "list", "tuple", "dict", "object", "to_dict: dict",
              "to_dict: other", "example"}

Units(kind) ==
    CASE kind = "scalar" -> Leaves \ {PyRef}
      [] kind = "list" -> {PyList(xs) : xs \in SeqsUpTo(Inner, MaxLen)}
      [] kind = "tuple" -> {PyTuple(xs) : xs \in SeqsUpTo(Inner, MaxLen)}
      [] kind = "dict" -> Dicts
      [] kind = "object" -> OpaqueObjects
      [] kind = "to_dict: dict" -> {SelfDescribing(<<r>>) : r \in Dicts}
      [] kind = "to_dict: other" -> {SelfDescribing(<<r>>) : r \in Inner}
      [] kind = "example" -> {ExampleSelfDescribing, ExampleOpaque, RaisingUnit}

----------------------------------------------------------------------------
(* The service: state after the module-level PaddleOCRVLService() call.    *)

NoHandle == 0
NoThread == 0
Threads == 1..NumThreads

\* config.settings, read by get_status
settings == [use_gpu |-> TRUE, device |-> "gpu:0"]

\* the path a caller of process_image owns: an existing file
CallerPath == "/data/in.png"

\* filename arguments of process_image_bytes: Path(filename).suffix and the rest
Filenames == {[stem |-> "scan", suffix |-> ""]}

\* tempfile.NamedTemporaryFile(suffix=suffix, delete=False).name
TempName(n, suffix) == "/tmp/tmp" \o ToString(n) \o suffix

\* Path(filename).suffix or ".jpg"
Suffix(filename) == IF filename.suffix = "" THEN ".jpg" ELSE filename.suffix

\* NamedTemporaryFile picks a name no existing file has: here the first one
FreshTemp ==
    CHOOSE n \in 1..(Cardinality(fs) + 1) :
        /\ \A f \in Filenames : TempName(n, Suffix(f)) \notin fs
        /\ \A m \in 1..(n - 1) : \E f \in Filenames : TempName(m, Suffix(f)) \in fs

\* what PaddleOCRVL() and the import before it can raise
ConstructionErrors == {"ImportError", "model load failed"}

\* result objects of the concurrent specification
SvcUnits == {ExampleSelfDescribing, ExampleOpaque, RaisingUnit}

\* what one predict(image_path) does: raise when invoked, or return a lazy
\* sequence that yields units and then ends or raises
Behaviour(units, fail) == [units |-> units, fail |-> fail]

\* the behaviours of predict in the concurrent specification, one for each
\* way out of process_image's try block
PredictBehaviours ==
    {Behaviour(<<>>, "invoke"),
     Behaviour(<<>>, "none"),
     Behaviour(<<ExampleSelfDescribing, ExampleOpaque>>, "none"),
     Behaviour(<<ExampleOpaque>>, "iterate"),
     Behaviour(<<ExampleSelfDescribing, RaisingUnit>>, "none")}

\* the behaviours of predict the loop of process_image is checked on
LoopUnits == SvcUnits \cup {PyList(<<PyRef>>), PyStr("text"), PyDict(<<Entry(TupleKey, Compute)>>)}
LoopBehaviours ==
    {Behaviour(<<>>, "invoke")}
    \cup {Behaviour(us, f) : us \in SeqsUpTo(LoopUnits, MaxUnits), f \in {"none", "iterate"}}

\* what a finished call gave its caller: kind is "ok" or the exception's type,
\* msg and cause are the exception's message prefix and __cause__
Outcome(kind, msg, cause, value) ==
    [kind |-> kind, msg |-> msg, cause |-> cause, value |-> value]

Ok(value) == Outcome("ok", "", "", value)

\* raise RuntimeError(f"PaddleOCR-VL initialization failed: {e}") from e
InitializationFailure(e) == Outcome("RuntimeError", "PaddleOCR-VL initialization failed", e, PyNone)

\* raise RuntimeError(f"Image processing failed: {e}") from e
ProcessingFailure(e) == Outcome("RuntimeError", "Image processing failed", e, PyNone)

\* an exception no handler of the service catches
Unwrapped(e) == Outcome(e, "", "", PyNone)

\* is_ready reading the instance flag of __init__ instead of the handle
is_ready_flag == _initialized

\* is_ready
is_ready == _pipeline # NoHandle

\* get_status
get_status ==
    [initialized |-> is_ready, gpu_enabled |-> settings.use_gpu, device |-> settings.device]

NoStatus == [initialized |-> FALSE, gpu_enabled |-> FALSE, device |-> ""]

NoBehaviour == [units |-> <<>>, fail |-> "none"]

NoLast ==
    [thread |-> NoThread, op |-> "", outcome |-> Ok(PyNone), image_path |-> "",
     temp_path |-> "", unlink_failed |-> FALSE, behaviour |-> NoBehaviour,
     handle |-> NoHandle, attempts |-> 0, status |-> NoStatus]

Init ==
    /\ _pipeline = NoHandle
    /\ _lock = NoThread
    /\ _initialized = TRUE
    /\ pc = [t \in Threads |-> "idle"]
    /\ op = [t \in Threads |-> ""]
    /\ image_path = [t \in Threads |-> ""]
    /\ temp_path = [t \in Threads |-> ""]
    /\ handle = [t \in Threads |-> NoHandle]
    /\ call_attempts = [t \in Threads |-> 0]
    /\ exc = [t \in Threads |-> ""]
    /\ waited = [t \in Threads |-> FALSE]
    /\ fs = {CallerPath}
    /\ calls = 0
    /\ constructs = 0
    /\ init_failed = FALSE
    /\ proc_failed = 0
    /\ last = NoLast
    /\ res = PyNone
    /\ result_json = PyNone
    /\ warned = FALSE
    /\ phase = "idle"

----------------------------------------------------------------------------
(* Steps of a thread.  pc: "idle", "ensure" (process_image, before its     *)
(* check of _pipeline), "check1", "acquire", "check2", "constructing",     *)
(* "except", "constructed" (_initialize_pipeline), "predict",              *)
(* "in_predict" (process_image).                                           *)

\* Finish without the finally block of process_image_bytes
Finish_no_unlink(t, outcome, behaviour, h) ==
    /\ fs' = fs
    /\ last' = [thread |-> t, op |-> op[t], outcome |-> outcome,
                image_path |-> image_path[t], temp_path |-> temp_path[t],
                unlink_failed |-> FALSE, behaviour |-> behaviour,
                handle |-> h, attempts |-> call_attempts[t],
                status |-> NoStatus]
    /\ pc' = [pc EXCEPT ![t] = "idle"]
    /\ op' = [op EXCEPT ![t] = ""]
    /\ image_path' = [image_path EXCEPT ![t] = ""]
    /\ temp_path' = [temp_path EXCEPT ![t] = ""]
    /\ handle' = [handle EXCEPT ![t] = NoHandle]
    /\ call_attempts' = [call_attempts EXCEPT ![t] = 0]
    /\ exc' = [exc EXCEPT ![t] = ""]
    /\ waited' = [waited EXCEPT ![t] = FALSE]

\* Finish with the unlink of the finally block unguarded: its exception
\* replaces what the call was about to give its caller
Finish_unlink_escalates(t, outcome, behaviour, h) ==
    \E unlinked \in (IF temp_path[t] = "" THEN {TRUE} ELSE BOOLEAN) :
        /\ fs' = IF unlinked THEN fs \ {temp_path[t]} ELSE fs
        /\ last' = [thread |-> t, op |-> op[t],
                    outcome |-> IF unlinked THEN outcome ELSE Unwrapped("OSError"),
                    image_path |-> image_path[t], temp_path |-> temp_path[t],
                    unlink_failed |-> ~unlinked, behaviour |-> behaviour,
                    handle |-> h, attempts |-> call_attempts[t],
                    status |-> NoStatus]
        /\ pc' = [pc EXCEPT ![t] = "idle"]
        /\ op' = [op EXCEPT ![t] = ""]
        /\ image_path' = [image_path EXCEPT ![t] = ""]
        /\ temp_path' = [temp_path EXCEPT ![t] = ""]
        /\ handle' = [handle EXCEPT ![t] = NoHandle]
        /\ call_attempts' = [call_attempts EXCEPT ![t] = 0]
        /\ exc' = [exc EXCEPT ![t] = ""]
        /\ waited' = [waited EXCEPT ![t] = FALSE]

\* Finish with the finally block unlinking the path given to process_image
Finish_unlink_image_path(t, outcome, behaviour, h) ==
    /\ fs' = fs \ {image_path[t]}
    /\ last' = [thread |-> t, op |-> op[t], outcome |-> outcome,
                image_path |-> image_path[t], temp_path |-> temp_path[t],
                unlink_failed |-> FALSE, behaviour |-> behaviour,
                handle |-> h, attempts |-> call_attempts[t],
                status |-> NoStatus]
    /\ pc' = [pc EXCEPT ![t] = "idle"]
    /\ op' = [op EXCEPT ![t] = ""]
    /\ image_path' = [image_path EXCEPT ![t] = ""]
    /\ temp_path' = [temp_path EXCEPT ![t] = ""]
    /\ handle' = [handle EXCEPT ![t] = NoHandle]
    /\ call_attempts' = [call_attempts EXCEPT ![t] = 0]
    /\ exc' = [exc EXCEPT ![t] = ""]
    /\ waited' = [waited EXCEPT ![t] = FALSE]

\* The call of thread t ends and its caller gets outcome.  For
\* process_image_bytes this is the finally block: Path(temp_path).unlink(),
\* whose failure is logged and dropped.
Finish(t, outcome, behaviour, h) ==
    \E unlinked \in (IF temp_path[t] = "" THEN {TRUE} ELSE BOOLEAN) :
        /\ fs' = IF unlinked THEN fs \ {temp_path[t]} ELSE fs
        /\ last' = [thread |-> t, op |-> op[t], outcome |-> outcome,
                    image_path |-> image_path[t], temp_path |-> temp_path[t],
                    unlink_failed |-> ~unlinked, behaviour |-> behaviour,
                    handle |-> h, attempts |-> call_attempts[t],
                    status |-> NoStatus]
        /\ pc' = [pc EXCEPT ![t] = "idle"]
        /\ op' = [op EXCEPT ![t] = ""]
        /\ image_path' = [image_path EXCEPT ![t] = ""]
        /\ temp_path' = [temp_path EXCEPT ![t] = ""]
        /\ handle' = [handle EXCEPT ![t] = NoHandle]
        /\ call_attempts' = [call_attempts EXCEPT ![t] = 0]
        /\ exc' = [exc EXCEPT ![t] = ""]
        /\ waited' = [waited EXCEPT ![t] = FALSE]


\* _initialize_pipeline returns: to the caller of the service, or into
\* process_image
ReturnInitialized(t) ==
    IF op[t] = "ensure_ready"
    THEN Finish(t, Ok(PyNone), NoBehaviour, _pipeline)
    ELSE /\ pc' = [pc EXCEPT ![t] = "predict"]
         /\ last' = NoLast
         /\ UNCHANGED <<op, image_path, temp_path, handle, call_attempts, exc, waited, fs>>

\* a thread calls _initialize_pipeline
ensure_ready_call(t) ==
    /\ pc[t] = "idle"
    /\ calls < MaxCalls
    /\ calls' = calls + 1
    /\ pc' = [pc EXCEPT ![t] = "check1"]
    /\ op' = [op EXCEPT ![t] = "ensure_ready"]
    /\ last' = NoLast
    /\ UNCHANGED <<_pipeline, _lock, _initialized, image_path, temp_path, handle,
                   call_attempts, exc, waited, fs, constructs, init_failed, proc_failed,
                   normVars>>

\* a thread calls process_image with a path of its own
process_image_call(t) ==
    /\ pc[t] = "idle"
    /\ calls < MaxCalls
    /\ calls' = calls + 1
    /\ pc' = [pc EXCEPT ![t] = "ensure"]
    /\ op' = [op EXCEPT ![t] = "process_image"]
    /\ image_path' = [image_path EXCEPT ![t] = CallerPath]
    /\ last' = NoLast
    /\ UNCHANGED <<_pipeline, _lock, _initialized, temp_path, handle,
                   call_attempts, exc, waited, fs, constructs, init_failed, proc_failed,
                   normVars>>

\* process_image_bytes: the temporary file is created and written, and
\* process_image is entered with its name
process_image_bytes_call(t) ==
    /\ pc[t] = "idle"
    /\ calls < MaxCalls
    /\ calls' = calls + 1
    /\ \E filename \in Filenames :
         LET name == TempName(FreshTemp, Suffix(filename)) IN
         /\ fs' = fs \cup {name}
         /\ temp_path' = [temp_path EXCEPT ![t] = name]
         /\ image_path' = [image_path EXCEPT ![t] = name]
    /\ pc' = [pc EXCEPT ![t] = "ensure"]
    /\ op' = [op EXCEPT ![t] = "process_image_bytes"]
    /\ last' = NoLast
    /\ UNCHANGED <<_pipeline, _lock, _initialized, handle, call_attempts, exc, waited,
                   constructs, init_failed, proc_failed, normVars>>

\* process_image_bytes: NamedTemporaryFile raises (no file is made), or
\* temp_file.write raises (the file is closed and, with delete=False, stays);
\* the with statement is outside the try, so the OSError reaches the caller
process_image_bytes_stage_fail(t) ==
    /\ pc[t] = "idle"
    /\ calls < MaxCalls
    /\ calls' = calls + 1
    /\ \E filename \in Filenames, created \in BOOLEAN :
         LET name == TempName(FreshTemp, Suffix(filename)) IN
         /\ fs' = IF created THEN fs \cup {name} ELSE fs
         /\ last' = [NoLast EXCEPT !.thread = t, !.op = "process_image_bytes",
                                   !.outcome = Unwrapped("OSError"),
                                   !.temp_path = IF created THEN name ELSE ""]
    /\ UNCHANGED <<_pipeline, _lock, _initialized, pc, op, image_path, temp_path,
                   handle, call_attempts, exc, waited, constructs, init_failed,
                   proc_failed, normVars>>

\* process_image_ensure without the call of _initialize_pipeline
process_image_no_ensure(t) ==
    /\ pc[t] = "ensure"
    /\ pc' = [pc EXCEPT ![t] = "predict"]
    /\ last' = NoLast
    /\ UNCHANGED <<_pipeline, _lock, _initialized, op, image_path, temp_path,
                   handle, call_attempts, exc, waited, fs, calls, constructs,
                   init_failed, proc_failed, normVars>>

\* process_image: if self._pipeline is None: self._initialize_pipeline()
process_image_ensure(t) ==
    /\ pc[t] = "ensure"
    /\ pc' = [pc EXCEPT ![t] = IF _pipeline = NoHandle THEN "check1" ELSE "predict"]
    /\ last' = NoLast
    /\ UNCHANGED <<_pipeline, _lock, _initialized, op, image_path, temp_path,
                   handle, call_attempts, exc, waited, fs, calls, constructs,
                   init_failed, proc_failed, normVars>>

\* initialize_check1 going for the lock whatever _pipeline is
initialize_check1_always_lock(t) ==
    /\ pc[t] = "check1"
    /\ pc' = [pc EXCEPT ![t] = "acquire"]
    /\ last' = NoLast
    /\ waited' = [waited EXCEPT ![t] = \E u \in Threads \ {t} : pc[u] = "constructing"]
    /\ UNCHANGED <<op, image_path, temp_path, handle, call_attempts, exc, fs>>
    /\ UNCHANGED <<_pipeline, _lock, _initialized, calls, constructs,
                   init_failed, proc_failed, normVars>>

\* _initialize_pipeline: the check before the lock
initialize_check1(t) ==
    /\ pc[t] = "check1"
    /\ IF _pipeline # NoHandle
       THEN ReturnInitialized(t)
       ELSE /\ pc' = [pc EXCEPT ![t] = "acquire"]
            /\ last' = NoLast
            /\ waited' = [waited EXCEPT ![t] = \E u \in Threads \ {t} : pc[u] = "constructing"]
            /\ UNCHANGED <<op, image_path, temp_path, handle, call_attempts, exc, fs>>
    /\ UNCHANGED <<_pipeline, _lock, _initialized, calls, constructs,
                   init_failed, proc_failed, normVars>>

\* initialize_acquire that does not wait for the lock to be free
initialize_acquire_no_wait(t) ==
    /\ pc[t] = "acquire"
    /\ _lock' = t
    /\ pc' = [pc EXCEPT ![t] = "check2"]
    /\ last' = NoLast
    /\ UNCHANGED <<_pipeline, _initialized, op, image_path, temp_path, handle,
                   call_attempts, exc, waited, fs, calls, constructs, init_failed,
                   proc_failed, normVars>>

\* _initialize_pipeline: with self._lock
initialize_acquire(t) ==
    /\ pc[t] = "acquire"
    /\ _lock = NoThread
    /\ _lock' = t
    /\ pc' = [pc EXCEPT ![t] = "check2"]
    /\ last' = NoLast
    /\ UNCHANGED <<_pipeline, _initialized, op, image_path, temp_path, handle,
                   call_attempts, exc, waited, fs, calls, constructs, init_failed,
                   proc_failed, normVars>>

\* initialize_check2 without the check under the lock
initialize_check2_no_recheck(t) ==
    /\ pc[t] = "check2"
    /\ pc' = [pc EXCEPT ![t] = "constructing"]
    /\ call_attempts' = [call_attempts EXCEPT ![t] = @ + 1]
    /\ last' = NoLast
    /\ UNCHANGED <<_lock, op, image_path, temp_path, handle, exc, waited, fs>>
    /\ UNCHANGED <<_pipeline, _initialized, calls, constructs, init_failed,
                   proc_failed, normVars>>

\* _initialize_pipeline: the check under the lock; returning leaves the with
\* block and releases the lock; otherwise the try block is entered
initialize_check2(t) ==
    /\ pc[t] = "check2"
    /\ IF _pipeline # NoHandle
       THEN /\ _lock' = NoThread
            /\ ReturnInitialized(t)
       ELSE /\ pc' = [pc EXCEPT ![t] = "constructing"]
            /\ call_attempts' = [call_attempts EXCEPT ![t] = @ + 1]
            /\ last' = NoLast
            /\ UNCHANGED <<_lock, op, image_path, temp_path, handle, exc, waited, fs>>
    /\ UNCHANGED <<_pipeline, _initialized, calls, constructs, init_failed,
                   proc_failed, normVars>>

\* _initialize_pipeline: self._pipeline = PaddleOCRVL() returns a new handle
construct_ok(t) ==
    /\ pc[t] = "constructing"
    /\ _pipeline' = constructs + 1
    /\ constructs' = constructs + 1
    /\ pc' = [pc EXCEPT ![t] = "constructed"]
    /\ last' = NoLast
    /\ UNCHANGED <<_lock, _initialized, op, image_path, temp_path, handle,
                   call_attempts, exc, waited, fs, calls, init_failed, proc_failed,
                   normVars>>

\* _initialize_pipeline: the import or PaddleOCRVL() raises and the except
\* clause binds the exception
construct_raise(t) ==
    /\ pc[t] = "constructing"
    /\ \E cause \in ConstructionErrors : exc' = [exc EXCEPT ![t] = cause]
    /\ UNCHANGED waited
    /\ init_failed' = TRUE
    /\ pc' = [pc EXCEPT ![t] = "except"]
    /\ last' = NoLast
    /\ UNCHANGED <<_pipeline, _lock, _initialized, op, image_path, temp_path,
                   handle, call_attempts, fs, calls, constructs, proc_failed,
                   normVars>>

\* initialize_except logging the exception and returning instead of raising
initialize_except_swallow(t) ==
    /\ pc[t] = "except"
    /\ _lock' = NoThread
    /\ ReturnInitialized(t)
    /\ UNCHANGED <<_pipeline, _initialized, calls, constructs, init_failed,
                   proc_failed, normVars>>

\* initialize_except raising with the lock still held
initialize_except_keep_lock(t) ==
    /\ pc[t] = "except"
    /\ _lock' = _lock
    /\ Finish(t, InitializationFailure(exc[t]), NoBehaviour, NoHandle)
    /\ UNCHANGED <<_pipeline, _initialized, calls, constructs, init_failed,
                   proc_failed, normVars>>

\* _initialize_pipeline, the except clause: logs, raises RuntimeError from e;
\* the exception leaves the with block, process_image (where the call is
\* outside the try) and, through its finally, process_image_bytes
initialize_except(t) ==
    /\ pc[t] = "except"
    /\ _lock' = NoThread
    /\ Finish(t, InitializationFailure(exc[t]), NoBehaviour, NoHandle)
    /\ UNCHANGED <<_pipeline, _initialized, calls, constructs, init_failed,
                   proc_failed, normVars>>

\* _initialize_pipeline: after the success log lines the with block ends
initialize_release(t) ==
    /\ pc[t] = "constructed"
    /\ _lock' = NoThread
    /\ ReturnInitialized(t)
    /\ UNCHANGED <<_pipeline, _initialized, calls, constructs, init_failed,
                   proc_failed, normVars>>

\* collect inserting each result at the front of results
RECURSIVE collect_prepend(_, _, _)
collect_prepend(b, i, results) ==
    IF i > Len(b.units)
    THEN IF b.fail = "iterate" THEN Raised("iteration failed") ELSE PyList(results)
    ELSE LET rj == NormalizeUnit(b.units[i])
         IN  IF IsRaised(rj) THEN rj ELSE collect_prepend(b, i + 1, <<rj>> \o results)

\* process_image, its loop: the units are normalised in the order the lazy
\* sequence yields them and appended to results
RECURSIVE collect(_, _, _)
collect(b, i, results) ==
    IF i > Len(b.units)
    THEN IF b.fail = "iterate" THEN Raised("iteration failed") ELSE PyList(results)
    ELSE LET rj == NormalizeUnit(b.units[i])
         IN  IF IsRaised(rj) THEN rj ELSE collect(b, i + 1, Append(results, rj))

\* process_image_try with only the predict call inside the try block
process_image_try_narrow(b) ==
    IF b.fail = "invoke" THEN ProcessingFailure("predict failed")
    ELSE LET r == collect(b, 1, <<>>)
         IN  IF IsRaised(r) THEN Unwrapped(r.v) ELSE Ok(r)

\* process_image, its try block from predict on: the results, or the
\* exception wrapped by the except clause
process_image_try(b) ==
    IF b.fail = "invoke" THEN ProcessingFailure("predict failed")
    ELSE LET r == collect(b, 1, <<>>)
         IN  IF IsRaised(r) THEN ProcessingFailure(r.v) ELSE Ok(r)

\* the ghost proc_failed after a call ended with outcome
NoteFailure(outcome) ==
    IF outcome.kind # "ok" /\ proc_failed = 0 THEN calls ELSE proc_failed

\* predict_begin under an invocation lock: one thread inside predict at a time
predict_begin_serialized(t) ==
    /\ pc[t] = "predict"
    /\ \A u \in Threads : pc[u] # "in_predict"
    /\ handle' = [handle EXCEPT ![t] = _pipeline]
    /\ pc' = [pc EXCEPT ![t] = "in_predict"]
    /\ last' = NoLast
    /\ UNCHANGED <<op, image_path, temp_path, call_attempts, exc, waited, fs,
                   proc_failed>>
    /\ UNCHANGED <<_pipeline, _lock, _initialized, calls, constructs,
                   init_failed, normVars>>

\* process_image: self._pipeline.predict(image_path) is entered
predict_begin(t) ==
    /\ pc[t] = "predict"
    /\ IF _pipeline = NoHandle
       THEN /\ Finish(t, ProcessingFailure("AttributeError"), NoBehaviour, NoHandle)
            /\ proc_failed' = NoteFailure(ProcessingFailure("AttributeError"))
       ELSE /\ handle' = [handle EXCEPT ![t] = _pipeline]
            /\ pc' = [pc EXCEPT ![t] = "in_predict"]
            /\ last' = NoLast
            /\ UNCHANGED <<op, image_path, temp_path, call_attempts, exc, waited, fs,
                           proc_failed>>
    /\ UNCHANGED <<_pipeline, _lock, _initialized, calls, constructs,
                   init_failed, normVars>>

\* predict_end dropping the handle when the call fails
predict_end_reset(t) ==
    /\ pc[t] = "in_predict"
    /\ \E b \in PredictBehaviours :
         /\ Finish(t, process_image_try(b), b, handle[t])
         /\ proc_failed' = NoteFailure(process_image_try(b))
         /\ _pipeline' = IF process_image_try(b).kind = "ok" THEN _pipeline ELSE NoHandle
    /\ UNCHANGED <<_lock, _initialized, calls, constructs, init_failed, normVars>>

\* process_image: predict answers, the loop runs, the call returns or raises
predict_end(t) ==
    /\ pc[t] = "in_predict"
    /\ \E b \in PredictBehaviours :
         /\ Finish(t, process_image_try(b), b, handle[t])
         /\ proc_failed' = NoteFailure(process_image_try(b))
    /\ UNCHANGED <<_pipeline, _lock, _initialized, calls, constructs,
                   init_failed, normVars>>

\* a read of the service's state by thread t: nothing but the caller's
\* answer changes
Read(t, name, status) ==
    /\ pc[t] = "idle"
    /\ last' = [NoLast EXCEPT !.thread = t, !.op = name, !.status = status]
    /\ UNCHANGED <<_pipeline, _lock, _initialized, pc, op, image_path, temp_path,
                   handle, call_attempts, exc, waited, fs, calls, constructs,
                   init_failed, proc_failed, normVars>>

is_ready_call(t) == Read(t, "is_ready", [NoStatus EXCEPT !.initialized = is_ready])

get_status_call(t) == Read(t, "get_status", get_status)

\* main.health_check: pipeline_ready=service_status["initialized"]
health_check(t) ==
    Read(t, "health_check", [NoStatus EXCEPT !.initialized = get_status.initialized])

Next ==
    \E t \in Threads :
        \/ ensure_ready_call(t)
        \/ process_image_call(t)
        \/ process_image_bytes_call(t)
        \/ process_image_bytes_stage_fail(t)
        \/ process_image_ensure(t)
        \/ initialize_check1(t)
        \/ initialize_acquire(t)
        \/ initialize_check2(t)
        \/ construct_ok(t)
        \/ construct_raise(t)
        \/ initialize_except(t)
        \/ initialize_release(t)
        \/ predict_begin(t)
        \/ predict_end(t)
        \/ is_ready_call(t)
        \/ get_status_call(t)
        \/ health_check(t)

Spec == Init /\ [][Next]_vars

----------------------------------------------------------------------------
(* The normaliser on its own: one result object in, its JSON form out.     *)

NormInit ==
    /\ _pipeline = NoHandle
    /\ _lock = NoThread
    /\ _initialized = TRUE
    /\ pc = [t \in Threads |-> "idle"]
    /\ op = [t \in Threads |-> ""]
    /\ image_path = [t \in Threads |-> ""]
    /\ temp_path = [t \in Threads |-> ""]
    /\ handle = [t \in Threads |-> NoHandle]
    /\ call_attempts = [t \in Threads |-> 0]
    /\ exc = [t \in Threads |-> ""]
    /\ waited = [t \in Threads |-> FALSE]
    /\ fs = {}
    /\ calls = 0
    /\ constructs = 0
    /\ init_failed = FALSE
    /\ proc_failed = 0
    /\ last = NoLast
    /\ \E kind \in UnitKinds : res \in Units(kind)
    /\ result_json = PyNone
    /\ warned = FALSE
    /\ phase = "input"

\* process_image, one pass of its loop body on res
normalize ==
    /\ phase = "input"
    /\ result_json' = NormalizeUnit(res)
    /\ warned' = FallbackWarned(res)
    /\ phase' = "normalized"
    /\ UNCHANGED <<res, svcVars>>

NormNext == normalize

NormSpec == NormInit /\ [][NormNext]_vars

----------------------------------------------------------------------------
(* The loop of process_image on its own: one predict behaviour in, the     *)
(* call's outcome out.                                                     *)

LoopInit ==
    /\ _pipeline = NoHandle
    /\ _lock = NoThread
    /\ _initialized = TRUE
    /\ pc = [t \in Threads |-> "idle"]
    /\ op = [t \in Threads |-> ""]
    /\ image_path = [t \in Threads |-> ""]
    /\ temp_path = [t \in Threads |-> ""]
    /\ handle = [t \in Threads |-> NoHandle]
    /\ call_attempts = [t \in Threads |-> 0]
    /\ exc = [t \in Threads |-> ""]
    /\ waited = [t \in Threads |-> FALSE]
    /\ fs = {}
    /\ calls = 0
    /\ constructs = 0
    /\ init_failed = FALSE
    /\ proc_failed = 0
    /\ \E b \in LoopBehaviours : last = [NoLast EXCEPT !.behaviour = b]
    /\ res = PyNone
    /\ result_json = PyNone
    /\ warned = FALSE
    /\ phase = "output"

\* process_image, its try block on the behaviour drawn
collect_results ==
    /\ phase = "output"
    /\ last' = [last EXCEPT !.op = "process_image",
                            !.outcome = process_image_try(last.behaviour)]
    /\ phase' = "returned"
    /\ UNCHANGED <<_pipeline, _lock, _initialized, pc, op, image_path, temp_path,
                   handle, call_attempts, exc, waited, fs, calls, constructs,
                   init_failed, proc_failed, res, result_json, warned>>

LoopNext == collect_results

LoopSpec == LoopInit /\ [][LoopNext]_vars

----------------------------------------------------------------------------
(* Properties of the concurrent specification (Spec).                      *)

CallOps == {"ensure_ready", "process_image", "process_image_bytes"}
ReadOps == {"is_ready", "get_status", "health_check"}

\* a call of the service ended in the last step
Delivered == last.thread # NoThread /\ last.op \in CallOps

\* the call that ended in the last step raised out of process_image's except
\* clause
ProcessingFailed ==
    /\ Delivered
    /\ last.outcome.kind = "RuntimeError"
    /\ last.outcome.msg = "Image processing failed"

\* the call that ended in the last step ran process_image's try block
RanTry == Delivered /\ last.op # "ensure_ready" /\ last.handle # NoHandle

\* C1: however the threads that find the handle unset interleave, at most
\* one handle is ever constructed; every handle a thread reads for predict is
\* that one, and every call that returns normally returns with that one
\* handle in place.
C1_SingleConstruction ==
    /\ constructs <= 1
    /\ \A t \in Threads :
           handle[t] # NoHandle => (handle[t] = _pipeline /\ constructs = 1)
    /\ (Delivered /\ last.outcome.kind = "ok") =>
           (constructs = 1 /\ _pipeline # NoHandle /\ last.handle = _pipeline)

\* Two first-time callers raced: one is under the lock at the second check
\* with the handle already there, the other is inside predict on that handle.
C1_Witness ==
    \E t, u \in Threads :
        /\ t # u
        /\ pc[t] = "check2"
        /\ pc[u] = "in_predict"
        /\ handle[u] = _pipeline
        /\ constructs = 1

\* C2: when construction raises, the call attempted construction once, its
\* caller gets the initialization RuntimeError whose cause is the exception
\* raised, the handle is unset when the call ends, and a call that later
\* reaches the check under the lock with the handle unset constructs again.
C2_ConstructionFailure ==
    [][\A t \in Threads :
          /\ (pc[t] = "except" /\ pc'[t] # "except") =>
                /\ last'.thread = t
                /\ last'.outcome.kind = "RuntimeError"
                /\ last'.outcome.msg = "PaddleOCR-VL initialization failed"
                /\ last'.outcome.cause = exc[t]
                /\ exc[t] \in ConstructionErrors
                /\ last'.attempts = 1
                /\ _pipeline' = NoHandle
                /\ constructs' = constructs
                /\ pc'[t] = "idle"
          /\ (init_failed /\ pc[t] = "check2" /\ _pipeline = NoHandle
                  /\ pc'[t] # "check2") =>
                (pc'[t] = "constructing" /\ call_attempts'[t] = 1)
      ]_vars

\* After a failed construction a later call constructed the handle and
\* returned normally.
C2_Witness ==
    /\ init_failed
    /\ Delivered
    /\ last.outcome.kind = "ok"
    /\ last.attempts = 1
    /\ _pipeline # NoHandle

\* C3 as stated: after a process_image_bytes call that ran the try block of
\* process_image (success, inference failure or normalisation failure) the
\* staged temporary file does not exist.
C3_Original ==
    (RanTry /\ last.op = "process_image_bytes") => last.temp_path \notin fs

\* C3: after such a call the staged temporary file does not exist unless the
\* unlink of the finally block itself raised (which is logged and dropped).
C3_Cleanup ==
    (RanTry /\ last.op = "process_image_bytes") =>
        (last.temp_path \notin fs \/ last.unlink_failed)

\* A process_image_bytes call failed in normalisation (to_dict raised) and
\* its staged file is gone.
C3_Witness ==
    /\ ProcessingFailed
    /\ last.op = "process_image_bytes"
    /\ last.outcome.cause = "to_dict failed"
    /\ last.temp_path # ""
    /\ last.temp_path \notin fs
    /\ ~last.unlink_failed

\* The first exception predict, the iteration or the normalisation raises
\* under behaviour b; "" when none does.
FirstFailure(b) ==
    IF b.fail = "invoke" THEN "predict failed"
    ELSE IF \E i \in 1..Len(b.units) : IsRaised(NormalizeUnit(b.units[i]))
    THEN LET i == CHOOSE j \in 1..Len(b.units) :
                      /\ IsRaised(NormalizeUnit(b.units[j]))
                      /\ \A k \in 1..(j - 1) : ~IsRaised(NormalizeUnit(b.units[k]))
         IN  NormalizeUnit(b.units[i]).v
    ELSE IF b.fail = "iterate" THEN "iteration failed"
    ELSE ""

\* what the raised RuntimeError holds: its message (prefix and str(e)) and
\* its __cause__
ErrorCarries(outcome) == {outcome.msg, outcome.cause}

\* C4 as stated: the processing failure carries the original cause and the
\* input path.
C4_Original ==
    ProcessingFailed =>
        /\ last.outcome.cause = FirstFailure(last.behaviour)
        /\ last.image_path \in ErrorCarries(last.outcome)

\* C4: an exception raised by predict, by the iteration or by the
\* normalisation of a unit reaches the caller as the one RuntimeError
\* "Image processing failed" whose cause is that exception; no other
\* exception type leaves the try block.  (The error does not hold the path.)
C4_Wrapping ==
    RanTry =>
        IF FirstFailure(last.behaviour) = ""
        THEN last.outcome.kind = "ok"
        ELSE /\ last.outcome.kind = "RuntimeError"
             /\ last.outcome.msg = "Image processing failed"
             /\ last.outcome.cause = FirstFailure(last.behaviour)

\* A call failed while the lazy sequence was iterated and its caller got
\* the wrapped error.
C4_Witness ==
    /\ ProcessingFailed
    /\ last.behaviour.fail = "iterate"
    /\ last.outcome.cause = "iteration failed"

\* C5: once the handle exists no step unsets or replaces it or constructs
\* another; every status read reports initialized, and every predict is
\* entered on that handle.
C5_FailureIsolation ==
    [][_pipeline # NoHandle =>
          /\ _pipeline' = _pipeline
          /\ constructs' = constructs
          /\ (last'.op \in ReadOps => last'.status.initialized)
          /\ \A t \in Threads :
                (pc[t] = "predict" /\ pc'[t] = "in_predict") =>
                    handle'[t] = _pipeline
      ]_vars

\* Request A raised a processing failure when it was the only call started;
\* request B, started after it, is inside predict on the same handle, and
\* one handle has been constructed.
C5_Witness ==
    /\ proc_failed = 1
    /\ calls = 2
    /\ constructs = 1
    /\ \E t \in Threads : pc[t] = "in_predict" /\ handle[t] = _pipeline

\* C10: a status read is enabled for an idle thread whatever the lock's
\* state, changes nothing but its caller's answer, and reports initialized
\* exactly when the handle exists; during a construction in progress or
\* failed the handle does not exist.
C10_StatusRead ==
    /\ [](\A t \in Threads :
             pc[t] = "idle" =>
                 /\ ENABLED is_ready_call(t)
                 /\ ENABLED get_status_call(t)
                 /\ ENABLED health_check(t))
    /\ [](\A t \in Threads : pc[t] \in {"constructing", "except"} => ~is_ready)
    /\ [][last'.op \in ReadOps =>
             /\ last'.status.initialized = (_pipeline # NoHandle)
             /\ UNCHANGED <<_pipeline, _lock, _initialized, pc, op, image_path,
                            temp_path, handle, call_attempts, exc, waited, fs, calls,
                            constructs, init_failed, proc_failed>>
         ]_vars

\* get_status answered "not initialized" while another thread held the lock
\* in the middle of construction.
C10_Witness ==
    /\ last.op = "get_status"
    /\ ~last.status.initialized
    /\ \E t \in Threads : pc[t] = "constructing" /\ _lock = t /\ t # last.thread

----------------------------------------------------------------------------
(* Properties of the loop of process_image (LoopSpec).                     *)

\* C6: a process_image that returns normally returns a list with one entry
\* for each unit predict yielded, entry i the normal form of unit i; when
\* nothing raises the call returns normally, so an empty sequence gives the
\* empty list.
C6_OrderPreserved ==
    phase = "returned" =>
        LET units == last.behaviour.units
            outcome == last.outcome
        IN  /\ outcome.kind = "ok" =>
                  /\ outcome.value.t = "list"
                  /\ Len(outcome.value.items) = Len(units)
                  /\ \A i \in 1..Len(units) :
                         outcome.value.items[i] = NormalizeUnit(units[i])
            /\ (/\ last.behaviour.fail = "none"
                /\ \A i \in 1..Len(units) : ~IsRaised(NormalizeUnit(units[i])))
                  => outcome.kind = "ok"
            /\ (units = <<>> /\ last.behaviour.fail = "none")
                  => outcome = Ok(PyList(<<>>))

\* predict yielded a self-describing and then an opaque unit, and the call
\* returned their two different normal forms in that order.
C6_Witness ==
    /\ phase = "returned"
    /\ last.behaviour.units = <<ExampleSelfDescribing, ExampleOpaque>>
    /\ last.outcome.kind = "ok"
    /\ Len(last.outcome.value.items) = 2
    /\ last.outcome.value.items[1] = NormalizeUnit(ExampleSelfDescribing)
    /\ last.outcome.value.items[1] # last.outcome.value.items[2]

----------------------------------------------------------------------------
(* Properties of the normaliser (NormSpec).                                *)

\* the normaliser ran on res and returned
Normalized == phase = "normalized" /\ ~IsRaised(result_json)

\* C7: the entry of a unit with a callable to_dict is what to_dict returned,
\* untouched by the fallback conversion, and no fallback warning is logged;
\* if to_dict raises, so does the normalisation.
C7_SelfDescribing ==
    (phase = "normalized" /\ has_to_dict(res)) =>
        LET to_dict == getattr(res, "to_dict", 1)
        IN  /\ ~warned
            /\ IF to_dict.items = <<>>
               THEN result_json = Raised("to_dict failed")
               ELSE result_json = to_dict.items[1]

\* to_dict returned a value the fallback conversion would have changed, and
\* the entry is that value.
C7_Witness ==
    /\ phase = "normalized"
    /\ has_to_dict(res)
    /\ ~IsRaised(result_json)
    /\ result_json = getattr(res, "to_dict", 1).items[1]
    /\ result_json # _make_serializable(result_json, result_json, 1)
    /\ result_json # _make_serializable(res, res, 1)

\* res is an instance with a __dict__ and no callable to_dict
OpaqueUnit == res.t = "object" /\ ~has_to_dict(res)

\* the attributes of res the fallback conversion is to keep, in their order
Exposed(e) ==
    /\ ~(Key(e).t = "str" /\ Key(e).v \in PrivateNames)
    /\ Val(e).t # "callable"
ExposedAttrs == SelectSeq(res.items, Exposed)

\* result_json is a mapping of exactly the exposed attributes of res, each
\* to the converted value: scalars as they are, lists and tuples of scalars
\* as the list of the same elements
ExposedMapping ==
    /\ result_json.t = "dict"
    /\ Len(result_json.items) = Len(ExposedAttrs)
    /\ \A i \in 1..Len(ExposedAttrs) :
           LET attr == Val(ExposedAttrs[i])
               got == Val(result_json.items[i])
           IN  /\ Key(result_json.items[i]) = Key(ExposedAttrs[i])
               /\ got = _make_serializable(Deref(attr, res, res), res, 2)
               /\ IsPrimitive(attr) => got = attr
               /\ (/\ attr.t \in {"list", "tuple"}
                   /\ \A j \in 1..Len(attr.items) : IsPrimitive(attr.items[j]))
                     => got = PyList(attr.items)

\* converting an exposed attribute of res raises
AttrConversionRaises ==
    \E i \in 1..Len(ExposedAttrs) :
        IsRaised(_make_serializable(Deref(Val(ExposedAttrs[i]), res, res), res, 2))

IsJsonMapping(x) ==
    /\ x.t = "dict"
    /\ \A i \in 1..Len(x.items) : Key(x.items[i]).t = "str"
    /\ json_dumps_ok(x)

\* C9 as stated: every entry the normalisation returns, on either path, is
\* a mapping from string keys that is JSON-serializable.
C9_Original == Normalized => IsJsonMapping(result_json)

----------------------------------------------------------------------------
(* Further properties of the concurrent specification (Spec).              *)

\* the state of the service that all threads share (the files aside)
SharedState == <<_pipeline, _lock, _initialized, constructs, init_failed>>

\* C11: with the handle in place, a call of _initialize_pipeline starts at
\* the check before the lock and its next step returns: no lock taken, no
\* construction attempted or counted, nothing shared changed; process_image
\* then goes on to predict without calling _initialize_pipeline's lock
\* either.  The handle, once in place, stays.
C11_IdempotentReady ==
    [][_pipeline # NoHandle =>
          /\ _pipeline' = _pipeline
          /\ \A t \in Threads :
                /\ (pc[t] = "idle" /\ pc'[t] # "idle") =>
                      (pc'[t] \in {"check1", "ensure"} /\ UNCHANGED SharedState)
                /\ (pc[t] \in {"check1", "ensure"} /\ pc'[t] # pc[t]) =>
                      /\ UNCHANGED SharedState
                      /\ call_attempts[t] = 0
                      /\ IF op[t] = "ensure_ready"
                         THEN /\ pc'[t] = "idle"
                              /\ fs' = fs
                              /\ last'.thread = t
                              /\ last'.outcome = Ok(PyNone)
                              /\ last'.attempts = 0
                              /\ last'.handle = _pipeline
                         ELSE pc'[t] = "predict"
      ]_vars

\* An ensure_ready call returned without an attempt of its own while the
\* constructing thread still held the lock.
C11_Witness ==
    /\ Delivered
    /\ last.op = "ensure_ready"
    /\ last.outcome = Ok(PyNone)
    /\ last.attempts = 0
    /\ constructs = 1
    /\ \E u \in Threads : u # last.thread /\ _lock = u /\ pc[u] = "constructed"

\* the files the service has made and not deleted
StagedFiles == fs \ {CallerPath}

\* a process_image_bytes call ended in the last step
BytesCallEnded == last.thread # NoThread /\ last.op = "process_image_bytes"

\* C12 as stated: every temporary file that exists belongs to a
\* process_image_bytes call still in progress; none outlives its call,
\* whether the call returned, failed in processing, failed in initialization
\* or failed while the bytes were written.
C12_Original ==
    \A f \in StagedFiles : \E t \in Threads : pc[t] # "idle" /\ temp_path[t] = f

\* the process_image_bytes call that ended in the last step never reached
\* process_image: creating the temporary file or writing to it raised
StagingFailed == BytesCallEnded /\ last.image_path = ""

\* C13 as stated: a process_image_bytes call whose staging failed gives its
\* caller the RuntimeError "Image processing failed", not the exception of
\* the file operation.
C13_Original ==
    StagingFailed =>
        /\ last.outcome.kind = "RuntimeError"
        /\ last.outcome.msg = "Image processing failed"

\* what process_image gives its caller under behaviour b when nothing raises
ExpectedResults(b) == PyList([i \in 1..Len(b.units) |-> NormalizeUnit(b.units[i])])

\* what a process_image_bytes call that got past staging gives its caller
\* when the deletion succeeds: the results, the processing failure, or (no
\* handle was taken) the initialization failure
OutcomeOfProcessing ==
    IF last.handle # NoHandle
    THEN IF FirstFailure(last.behaviour) = ""
         THEN last.outcome = Ok(ExpectedResults(last.behaviour))
         ELSE last.outcome = ProcessingFailure(FirstFailure(last.behaviour))
    ELSE \E e \in ConstructionErrors : last.outcome = InitializationFailure(e)

\* C14: a process_image_bytes call whose unlink raised gives its caller what
\* it gives when the unlink succeeds: the same list, or the same
\* RuntimeError with the same cause; the unlink's exception is only logged.
C14_DeletionNotEscalated ==
    (BytesCallEnded /\ ~StagingFailed) => OutcomeOfProcessing

\* predict raised, the unlink failed as well (the file is still there), and
\* the caller got the processing failure with predict's exception as cause.
C14_Witness ==
    /\ BytesCallEnded
    /\ last.unlink_failed
    /\ last.temp_path \in fs
    /\ last.outcome = ProcessingFailure("predict failed")

----------------------------------------------------------------------------
(* Further properties of the normaliser (NormSpec).                        *)

\* C15 as stated: the fallback conversion gives a value for every unit,
\* cyclic ones included; it never ends in an exception.
C15_Original ==
    (phase = "normalized" /\ ~has_to_dict(res)) => ~IsRaised(result_json)

----------------------------------------------------------------------------
(* Properties of the lock (Spec).                                          *)

\* thread t is inside the with self._lock block of _initialize_pipeline
InLockSection(t) == pc[t] \in {"check2", "constructing", "except", "constructed"}

\* thread t is in the try block of _initialize_pipeline or past it
Constructs(t) == pc[t] \in {"constructing", "except", "constructed"}

\* at most one thread is inside the with block, and it is the lock's holder
LockExcludes ==
    /\ \A t, u \in Threads : (InLockSection(t) /\ InLockSection(u)) => t = u
    /\ \A t \in Threads : InLockSection(t) <=> _lock = t

----------------------------------------------------------------------------
(* Properties of process_image in the concurrent specification (Spec).     *)

ProcessOps == {"process_image", "process_image_bytes"}

\* C17: a thread is at or inside predict only with the handle in place, and
\* inside predict on that handle.  When the construction started by a
\* process_image call raises, the call ends there: no predict, and the
\* caller gets the initialization RuntimeError with the construction's
\* exception as cause, not the processing failure.
C17_ReadyBeforePredict ==
    /\ [](\A t \in Threads :
             /\ pc[t] \in {"predict", "in_predict"} => _pipeline # NoHandle
             /\ pc[t] = "in_predict" => handle[t] = _pipeline)
    /\ []((Delivered /\ last.op \in ProcessOps /\ ~StagingFailed
                /\ last.handle = NoHandle) =>
             /\ last.attempts = 1
             /\ last.behaviour = NoBehaviour
             /\ \E e \in ConstructionErrors : last.outcome = InitializationFailure(e))
    /\ [][\A t \in Threads :
             (op[t] \in ProcessOps /\ pc[t] = "except" /\ pc'[t] # "except") =>
                 /\ pc'[t] = "idle"
                 /\ last'.thread = t
                 /\ last'.handle = NoHandle
                 /\ last'.outcome = InitializationFailure(exc[t])
         ]_vars

\* A process_image call ended in the initialization failure without having
\* taken a handle for predict.
C17_Witness ==
    /\ Delivered
    /\ last.op = "process_image"
    /\ last.handle = NoHandle
    /\ last.attempts = 1
    /\ last.outcome.msg = "PaddleOCR-VL initialization failed"
    /\ _pipeline = NoHandle

\* C18: the lock is held only inside _initialize_pipeline's with block,
\* never by a thread at or inside predict; a thread about to call predict
\* can do so, and a thread inside predict can finish, whatever the other
\* threads are doing and whoever holds the lock.
C18_NoInvocationLock ==
    \A t \in Threads :
        /\ pc[t] \in {"ensure", "predict", "in_predict"} => _lock # t
        /\ _lock = t => InLockSection(t)
        /\ pc[t] = "predict" => ENABLED predict_begin(t)
        /\ pc[t] = "in_predict" => ENABLED predict_end(t)

\* Two threads are inside predict on the shared handle at the same time.
C18_Witness ==
    \E t, u \in Threads :
        /\ t # u
        /\ pc[t] = "in_predict"
        /\ pc[u] = "in_predict"
        /\ handle[t] = _pipeline
        /\ handle[u] = _pipeline
        /\ _pipeline # NoHandle
        /\ _lock = NoThread

\* C19: the caller's file exists in every state; no step of a process_image
\* call changes the set of files; a file disappears only as the staged file
\* of the process_image_bytes call that ends in that step; and a finished
\* process_image call was given no staged file and leaves its path in place.
C19_CallerPathUntouched ==
    /\ [](CallerPath \in fs)
    /\ []((Delivered /\ last.op = "process_image") =>
             /\ last.image_path = CallerPath
             /\ last.temp_path = ""
             /\ last.image_path \in fs)
    /\ [][/\ \A t \in Threads :
                ((op[t] = "process_image" \/ op'[t] = "process_image")
                     /\ pc'[t] # pc[t]) => fs' = fs
          /\ \A f \in fs \ fs' :
                \E t \in Threads :
                    /\ op[t] = "process_image_bytes"
                    /\ temp_path[t] = f
                    /\ f # CallerPath
                    /\ pc'[t] = "idle"
         ]_vars

\* A process_image call on the caller's path ended in a processing failure
\* and the file is still there.
C19_Witness ==
    /\ ProcessingFailed
    /\ last.op = "process_image"
    /\ last.image_path = CallerPath
    /\ CallerPath \in fs

----------------------------------------------------------------------------
(* The lock under fair scheduling: any number of _initialize_pipeline and  *)
(* process_image calls by each thread, every started step of a thread      *)
(* eventually taken if it stays possible.                                  *)

\* a thread calls _initialize_pipeline once more (calls beyond MaxCalls are
\* not counted)
ensure_ready_recall(t) ==
    /\ pc[t] = "idle"
    /\ pc' = [pc EXCEPT ![t] = "check1"]
    /\ op' = [op EXCEPT ![t] = "ensure_ready"]
    /\ last' = NoLast
    /\ UNCHANGED <<_pipeline, _lock, _initialized, image_path, temp_path, handle,
                   call_attempts, exc, waited, fs, calls, constructs, init_failed,
                   proc_failed, normVars>>

\* a thread calls process_image once more with a path of its own
process_image_recall(t) ==
    /\ pc[t] = "idle"
    /\ pc' = [pc EXCEPT ![t] = "ensure"]
    /\ op' = [op EXCEPT ![t] = "process_image"]
    /\ image_path' = [image_path EXCEPT ![t] = CallerPath]
    /\ last' = NoLast
    /\ UNCHANGED <<_pipeline, _lock, _initialized, temp_path, handle,
                   call_attempts, exc, waited, fs, calls, constructs, init_failed,
                   proc_failed, normVars>>

\* the steps of a call of thread t once it has started
Progress(t) ==
    \/ process_image_ensure(t)
    \/ initialize_check1(t)
    \/ initialize_acquire(t)
    \/ initialize_check2(t)
    \/ construct_ok(t)
    \/ construct_raise(t)
    \/ initialize_except(t)
    \/ initialize_release(t)
    \/ predict_begin(t)
    \/ predict_end(t)

\* the service after MaxCalls calls that left it as it was constructed
LockInit ==
    /\ _pipeline = NoHandle
    /\ _lock = NoThread
    /\ _initialized = TRUE
    /\ pc = [t \in Threads |-> "idle"]
    /\ op = [t \in Threads |-> ""]
    /\ image_path = [t \in Threads |-> ""]
    /\ temp_path = [t \in Threads |-> ""]
    /\ handle = [t \in Threads |-> NoHandle]
    /\ call_attempts = [t \in Threads |-> 0]
    /\ exc = [t \in Threads |-> ""]
    /\ waited = [t \in Threads |-> FALSE]
    /\ fs = {CallerPath}
    /\ calls = MaxCalls
    /\ constructs = 0
    /\ init_failed = FALSE
    /\ proc_failed = 0
    /\ last = NoLast
    /\ res = PyNone
    /\ result_json = PyNone
    /\ warned = FALSE
    /\ phase = "idle"

LockNext ==
    \E t \in Threads :
        \/ ensure_ready_recall(t)
        \/ process_image_recall(t)
        \/ Progress(t)

\* PaddleOCRVL() and predict return or raise, and the interpreter runs every
\* thread that can take a step
LockSpec ==
    /\ LockInit
    /\ [][LockNext]_vars
    /\ \A t \in Threads : WF_vars(Progress(t))

====
